---- MODULE Spec2Model ----
(***************************************************************************)
(* State-machine model of the TURN client relay connection                 *)
(* (src/src/client/relay_conn.rs): the RelayConn facade, RelayConnInternal *)
(* (permissions, bindings, nonce), the background ChannelBind tasks and    *)
(* the observer mutex they share.                                          *)
(*                                                                         *)
(* Granularity.  Calls that go through the RelayConnInternal mutex         *)
(* (send_to, close) are serialised by it, so one record `call` holds the   *)
(* position and the locals of the call that owns that mutex.  A call is    *)
(* split at its suspension points on which other tasks can act: waiting    *)
(* for the observer mutex, and waiting for a transaction response while    *)
(* holding it.  The binding-manager mutex is only ever held over code      *)
(* without an await, so each of its critical sections is one step.         *)
(***************************************************************************)
EXTENDS Integers, Sequences, FiniteSets, Bags, TLC

(* ---- program constants ---- *)
MAX_RETRY_ATTEMPTS == 3
MAX_READ_QUEUE_SIZE == 1024
CODE_STALE_NONCE == 438
BIND_REFRESH_SECS == 300
MIN_CHANNEL_NUMBER == 16384
MAX_CHANNEL_NUMBER == 32767

(* ---- bounds of the model ---- *)
MaxTasks == 2
TickSecs == 301
MaxInbound == 3
AuthTicks == 2

(* Peer addresses (ip, port) the application sends to.                    *)
Addrs == {[ip |-> 1, port |-> 1]}
IPs == {a.ip : a \in Addrs}

NoNonce == "none"

(* RelayConnConfig.lifetime, and the LIFETIME a server grants on Refresh   *)
(* (seconds).                                                              *)
ConfigLifetime == 600
ServerLifetime == 300

(* Seconds the clock advances in one step of the credentials' clock.     *)
AuthTickSecs == 30
TimerIds == {"Alloc", "Perms"}

(* Tasks of the application that call recv_from. *)
Receivers == {1, 2}
NoReceiver == 0
IdleRecv == [pc |-> "idle", buf |-> "none", result |-> "none", data |-> 0]

(* Responses the observer's perform_transaction can hand back for a        *)
(* CreatePermission request: a transport failure, or a message with a      *)
(* class, possibly an ERROR-CODE and possibly a NONCE attribute.           *)
OtherErrorCode == 403
NoCode == 0
NoLifetime == 0
Response(tx, class, code, n, lt) ==
    [tx |-> tx, class |-> class, code |-> code, nonce |-> n, lifetime |-> lt]
ErrorResponses ==
    {Response("err", "none", NoCode, NoNonce, NoLifetime),
     Response("ok", "error", NoCode, NoNonce, NoLifetime),
     Response("ok", "error", OtherErrorCode, NoNonce, NoLifetime),
     Response("ok", "error", CODE_STALE_NONCE, NoNonce, NoLifetime),
     Response("ok", "error", CODE_STALE_NONCE, "N2", NoLifetime)}
TxResponses ==
    ErrorResponses \cup {Response("ok", "success", NoCode, NoNonce, NoLifetime)}

(* Responses to a Refresh request: a success response carries a LIFETIME   *)
(* attribute, or lacks it.                                                 *)
RefreshResponses ==
    ErrorResponses \cup {Response("ok", "success", NoCode, NoNonce, ServerLifetime),
                         Response("ok", "success", NoCode, NoNonce, NoLifetime),
                         Response("ok", "error", OtherErrorCode, "N2", ServerLifetime)}

IsSuccess(resp) == resp.tx = "ok" /\ resp.class = "success"
IsStaleNonce(resp) == resp.tx = "ok" /\ resp.class = "error" /\ resp.code = CODE_STALE_NONCE

(* Outcomes of the ChannelBind transaction as bind() tells them apart.     *)
BindOutcomes == {"Ok", "UnexpectedResponse", "Err"}

VARIABLES
    read_ch_tx,           \* RelayConn.read_ch_tx: "Some" | "None"
    refresh_alloc_timer,  \* "running" | "stopped"
    refresh_perms_timer,  \* "running" | "stopped"
    perm_map,             \* RelayConnInternal.perm_map: ip -> "None" | "Idle" | "Permitted"
    bindings,             \* BindingManager: addr -> binding record (st = "None": no record)
    nonce,                \* RelayConnInternal.nonce
    obs_lock,             \* owner of the observer mutex: "free" | "conn" | "task"
    call,                 \* the call that owns the RelayConnInternal mutex, or the last one
    tasks,                \* bag of spawned ChannelBind tasks that have not finished
    other_peers,          \* which peers outside Addrs have a binding: see other_numbers
    lifetime,             \* RelayConnInternal.lifetime, in seconds
    fired,                \* timers whose period has elapsed and whose callback has not begun
    read_ch,              \* the inbound queue between read_ch_tx and read_ch_rx
    rx_lock,              \* owner of the read_ch_rx mutex: a receiver, or NoReceiver
    recv,                 \* the recv_from call of each receiver
    auth,                 \* long-term credentials: generator, client and auth handler
    hist                  \* what the environment has observed (history)

vars == <<read_ch_tx, refresh_alloc_timer, refresh_perms_timer, perm_map, bindings,
          nonce, obs_lock, call, tasks, other_peers, lifetime, fired, read_ch, rx_lock, recv,
          auth, hist>>

NoBinding == [st |-> "None", number |-> 0, refreshed_ago |-> 0]
NoAddr == [ip |-> 0, port |-> 0]

IdleCall ==
    [op |-> "none", pc |-> "idle", addr |-> NoAddr, perm |-> "None", attempt |-> 0,
     result |-> "Ok", bind_st |-> "None", bind_number |-> 0,
     id |-> "none", lifetime |-> 0]

NoResponse == Response("none", "none", NoCode, NoNonce, NoLifetime)
NoRequest ==
    [method |-> "none", lifetime |-> NoLifetime, dont_wait |-> FALSE, nonce |-> NoNonce]

(* History of the call in progress: what its caller and the observer have *)
(* seen of it.  Dropped when the call has returned.                        *)
CallHist ==
    [after_close |-> FALSE,   \* the call began when read_ch_tx was already None
     perm_found |-> "None",   \* the permission send_to found in the table
     cps |-> 0,               \* CreatePermission transactions this call issued
     cp_ok |-> FALSE,         \* one of them was answered with a success response
     cp_stale |-> 0,          \* how many were answered with error 438
     last_resp |-> NoResponse,\* the answer to the last of them
     granted_before |-> FALSE,\* an earlier send_to had a CreatePermission for this ip succeed
     bound_before |-> FALSE,  \* a bind task for this addr has succeeded since the last
                              \* send_to read the addr's binding
     created |-> FALSE,       \* the call created a binding record
     spawned |-> 0,           \* bind tasks the call spawned
     wrote |-> <<>>,          \* frames written through write_to: <<kind, channel>>
     deallocs |-> 0,          \* on_deallocated notifications of this call
     refreshes |-> 0,         \* Refresh(lifetime 0) transactions of this call
     refresh_sent |-> FALSE,  \* the observer sent that Refresh
     last_req |-> NoRequest,  \* the last request the call handed to perform_transaction
     first_resp |-> NoResponse]\* the answer to the first request of a timer callback

InitHist ==
    [c |-> CallHist,
     granted |-> {},          \* ips a CreatePermission of a send_to was answered success for
     bound |-> {},            \* addrs whose bind task has succeeded since the last send_to
                              \* read their binding
     deallocs |-> 0,          \* on_deallocated notifications in total
     refreshes |-> 0,         \* Refresh(lifetime 0) transactions in total
     arrived |-> 0,           \* packets handle_inbound has put into the queue
     taken |-> 0,             \* packets recv_from has taken out of the queue
     inbound |-> "none",      \* what the last handle_inbound returned
     late |-> [id \in TimerIds |-> 0]]
                              \* callbacks of each timer that began after close,
                              \* counted up to 2

(* No credentials are being made: the relay connection alone.             *)
NoAuth == [pc |-> "none"]

(* The state RelayConn::new leaves, but for the bindings of other peers.  *)
InitConn ==
    /\ read_ch_tx = "Some"
    /\ refresh_alloc_timer = "running"
    /\ refresh_perms_timer = "running"
    /\ perm_map = [i \in IPs |-> "None"]
    /\ bindings = [a \in Addrs |-> NoBinding]
    /\ nonce = "N1"
    /\ obs_lock = "free"
    /\ call = IdleCall
    /\ tasks = EmptyBag
    /\ lifetime = ConfigLifetime
    /\ fired = {}
    /\ read_ch = <<>>
    /\ rx_lock = NoReceiver
    /\ recv = [r \in Receivers |-> IdleRecv]
    /\ hist = InitHist

Init == InitConn /\ other_peers = "none" /\ auth = NoAuth

(* ---- PermissionMap (client/permission.rs), keyed by the peer's ip ---- *)
find(pm, addr) == pm[addr.ip]
insert(pm, addr, p) == [pm EXCEPT ![addr.ip] = p]
delete(pm, addr) == [pm EXCEPT ![addr.ip] = "None"]

(* ---- BindingManager (client/binding.rs), keyed by the peer's address ---- *)
(* The bindings of the peers in Addrs are followed one by one.  Those of  *)
(* the other peers the application has sent to are only counted in by the  *)
(* channel numbers they hold: none, every number, or every number but two. *)
AllNumbers == MIN_CHANNEL_NUMBER..MAX_CHANNEL_NUMBER
TwoFree == {MIN_CHANNEL_NUMBER + 1, MIN_CHANNEL_NUMBER + 3}
other_numbers ==
    IF other_peers = "all" THEN AllNumbers
    ELSE IF other_peers = "all_but_two" THEN AllNumbers \ TwoFree
    ELSE {}
find_by_addr(bm, addr) == bm[addr]
UsedNumbers(bm) ==
    {bm[a].number : a \in {x \in Addrs : bm[x].st # "None"}} \cup other_numbers
(* The lowest number from n up that no binding has; 0 when there is none. *)
LowestFree(bm, n) ==
    LET used == UsedNumbers(bm)
        \* the lowest free number is at most Cardinality(used) above n
        top == IF n + Cardinality(used) < MAX_CHANNEL_NUMBER THEN n + Cardinality(used)
               ELSE MAX_CHANNEL_NUMBER
        free == {m \in n..top : m \notin used}
    IN IF free = {} THEN 0 ELSE CHOOSE m \in free : \A k \in free : m <= k
(* create: a new Idle binding on the lowest free channel number, with     *)
(* refreshed_at the time of its creation; no binding when the range is     *)
(* used up.                                                                *)
create(bm, addr) ==
    LET n == LowestFree(bm, MIN_CHANNEL_NUMBER)
    IN IF n = 0 THEN bm
       ELSE [bm EXCEPT ![addr] = [st |-> "Idle", number |-> n, refreshed_ago |-> 0]]
delete_by_addr(bm, addr) == [bm EXCEPT ![addr] = NoBinding]
set_state(bm, addr, st) ==
    IF bm[addr].st = "None" THEN bm ELSE [bm EXCEPT ![addr].st = st]
(* set_refreshed_at(Instant::now()) *)
set_refreshed_at_now(bm, addr) ==
    IF bm[addr].st = "None" THEN bm ELSE [bm EXCEPT ![addr].refreshed_ago = 0]

(* ---- requests, by the attributes that matter here ---- *)
create_permission_request(n) ==
    [method |-> "CreatePermission", lifetime |-> NoLifetime, dont_wait |-> FALSE, nonce |-> n]

(* Mutant: the Refresh is sent in the mode that waits for the response.    *)
refresh_request_wait(lt, dont_wait, n) ==
    [method |-> "Refresh", lifetime |-> lt, dont_wait |-> FALSE, nonce |-> n]

refresh_request(lt, dont_wait, n) ==
    [method |-> "Refresh", lifetime |-> lt, dont_wait |-> dont_wait, nonce |-> n]

(* ---- RelayConnInternal::create_permissions: what a response becomes ---- *)
(* "Transaction": perform_transaction (or the message build) failed;      *)
(* "ErrorType": an error response without ERROR-CODE, reported by its      *)
(* type; "ErrorCode": an error response with another code than 438.        *)
create_permissions(resp) ==
    IF resp.tx = "err" THEN "Transaction"
    ELSE IF resp.class = "error"
         THEN IF resp.code = NoCode THEN "ErrorType"
              ELSE IF resp.code = CODE_STALE_NONCE THEN "TryAgain"
              ELSE "ErrorCode"
         ELSE "Ok"

(* Mutant: the NONCE of the response is not stored.                       *)
set_nonce_from_msg_keep(n, resp) == n

set_nonce_from_msg(n, resp) == IF resp.nonce # NoNonce THEN resp.nonce ELSE n

(* nonce after create_permissions has handled resp *)
nonce_after(n, resp) ==
    IF resp.tx = "ok" /\ resp.class = "error" /\ resp.code = CODE_STALE_NONCE
    THEN set_nonce_from_msg(n, resp)
    ELSE n

(* ---- RelayConnInternal::create_perm, after create_permissions returned r ---- *)
(* Mutant: the permission is left in the table when the request failed.    *)
create_perm_map_keep(pm, addr, r) == pm

create_perm_map(pm, addr, r) == IF r # "Ok" THEN delete(pm, addr) ELSE pm
create_perm_state(perm, r) == IF r = "Ok" THEN "Permitted" ELSE perm

(* ---- the retry loop of send_to (for _ in 0..MAX_RETRY_ATTEMPTS) ----     *)
(* Where the call goes after the attempt-th pass returned r.  A pass over  *)
(* a Permitted local permission is a no-op returning Ok, so after a        *)
(* success the remaining passes change nothing and the loop is left.       *)
(* Mutant: the loop is left on any error, TryAgain included.               *)
retry_pc_no_retry(r, attempt) == IF r = "Ok" THEN "binding" ELSE "return"

(* Mutant: the error the loop ends with is not returned.                   *)
retry_pc_ignore_error(r, attempt) ==
    IF r = "TryAgain" /\ attempt < MAX_RETRY_ATTEMPTS THEN "create_perm" ELSE "binding"

retry_pc(r, attempt) ==
    IF r = "Ok" THEN "binding"
    ELSE IF r = "TryAgain" /\ attempt < MAX_RETRY_ATTEMPTS THEN "create_perm"
    ELSE "return"

(* ---- dispatch of send_to on the binding state it read ---- *)
uses_indication(st) == st \in {"Idle", "Request", "Failed"}
spawns_bind(st) == st = "Idle"
spawns_refresh(st, ago) == st = "Ready" /\ ago * TickSecs > BIND_REFRESH_SECS

TasksFor(addr) == {t \in BagToSet(tasks) : t.addr = addr}
Outstanding(addr) ==
    LET S == TasksFor(addr)
        RECURSIVE Sum(_)
        Sum(T) == IF T = {} THEN 0
                  ELSE LET t == CHOOSE x \in T : TRUE
                       IN CopiesIn(t, tasks) + Sum(T \ {t})
    IN Sum(S)

(* stale is history: the binding the task was spawned for has been        *)
(* deleted since.  No step of the program reads it.                        *)
NewTask(addr, number, kind) ==
    [addr |-> addr, number |-> number, kind |-> kind, pc |-> "spawned", result |-> "none",
     stale |-> FALSE]

Return(r) == [call EXCEPT !.pc = "return", !.result = r]

(* Bound of the model: a send_to that may spawn a task begins only while  *)
(* fewer than MaxTasks tasks are unfinished (a binding in Request, Refresh *)
(* or Failed makes this send_to spawn none).                               *)
CanBegin(addr) ==
    \/ BagCardinality(tasks) < MaxTasks
    \/ bindings[addr].st \in {"Request", "Refresh", "Failed"}

(* RelayConn::send_to takes the RelayConnInternal mutex and enters         *)
(* RelayConnInternal::send_to: look the permission up (a copy), inserting   *)
(* an Idle one when there is none.                                         *)
send_to_begin(addr) ==
    /\ call.pc = "idle"
    /\ CanBegin(addr)
    /\ LET found == find(perm_map, addr) # "None"
           perm == IF found THEN find(perm_map, addr) ELSE "Idle"
       IN /\ perm_map' = IF found THEN perm_map ELSE insert(perm_map, addr, "Idle")
          /\ call' = [IdleCall EXCEPT !.op = "send_to", !.addr = addr, !.perm = perm,
                                      !.pc = IF perm = "Idle" THEN "create_perm"
                                             ELSE "binding"]
    /\ hist' = [hist EXCEPT !.c = [CallHist EXCEPT
                                     !.after_close = (read_ch_tx = "None"),
                                     !.perm_found = find(perm_map, addr),
                                     !.granted_before = (addr.ip \in hist.granted)]]
    /\ UNCHANGED <<read_ch_tx, refresh_alloc_timer, refresh_perms_timer, bindings,
                   nonce, obs_lock, tasks, other_peers, lifetime, fired, read_ch, rx_lock,
                   recv, auth>>

(* create_perm on an Idle permission: create_permissions builds the        *)
(* request, takes the observer mutex and hands it to perform_transaction.  *)
send_to_create_perm ==
    /\ call.op = "send_to" /\ call.pc = "create_perm"
    /\ obs_lock = "free"
    /\ obs_lock' = "conn"
    /\ call' = [call EXCEPT !.pc = "cp_wait"]
    /\ hist' = [hist EXCEPT !.c.cps = @ + 1,
                            !.c.last_req = create_permission_request(nonce)]
    /\ UNCHANGED <<read_ch_tx, refresh_alloc_timer, refresh_perms_timer, perm_map,
                   bindings, nonce, tasks, other_peers, lifetime, fired, read_ch, rx_lock,
                   recv, auth>>

(* The transaction ends with resp: the observer mutex is released,         *)
(* create_permissions turns resp into a result, create_perm deletes the    *)
(* permission on an error or marks its copy Permitted, and the loop        *)
(* decides what follows.                                                   *)
send_to_cp_response(resp) ==
    /\ call.op = "send_to" /\ call.pc = "cp_wait"
    /\ obs_lock' = "free"
    /\ LET r == create_permissions(resp)
           attempt == call.attempt + 1
           pc == retry_pc(r, attempt)
       IN /\ nonce' = nonce_after(nonce, resp)
          /\ perm_map' = create_perm_map(perm_map, call.addr, r)
          /\ call' = [call EXCEPT !.perm = create_perm_state(call.perm, r),
                                  !.attempt = attempt,
                                  !.result = r,
                                  !.pc = pc]
          /\ hist' = [hist EXCEPT !.c.cp_ok = @ \/ IsSuccess(resp),
                                  !.c.cp_stale = IF IsStaleNonce(resp) THEN @ + 1 ELSE @,
                                  !.c.last_resp = resp,
                                  !.granted = IF IsSuccess(resp) THEN @ \cup {call.addr.ip}
                                              ELSE @]
    /\ UNCHANGED <<read_ch_tx, refresh_alloc_timer, refresh_perms_timer, bindings,
                   tasks, other_peers, lifetime, fired, read_ch, rx_lock, recv, auth>>

(* `.ok_or_else(|| Error::new("Addr not found"))?` on what create gave.   *)
(* Mutant: the failure of create is not looked at.                         *)
create_failed_never(b) == FALSE

create_failed(b) == b.st = "None"

(* Under the binding-manager mutex: find the binding or create it, read    *)
(* (state, refreshed_at, number, addr); then spawn the bind task (binding  *)
(* Idle) or the refresh task (binding Ready and older than 5 minutes).     *)
send_to_binding ==
    /\ call.op = "send_to" /\ call.pc = "binding"
    /\ LET old == find_by_addr(bindings, call.addr)
           bm == IF old.st # "None" THEN bindings ELSE create(bindings, call.addr)
           b == find_by_addr(bm, call.addr)
           kind == IF spawns_bind(b.st) THEN "bind"
                   ELSE IF ~uses_indication(b.st) /\ spawns_refresh(b.st, b.refreshed_ago)
                        THEN "refresh"
                   ELSE "none"
       IN IF create_failed(b)
          THEN /\ call' = Return("AddrNotFound")
               /\ UNCHANGED <<bindings, tasks, hist>>
          ELSE /\ bindings' = bm
               /\ call' = [call EXCEPT !.pc = "write", !.bind_st = b.st,
                                       !.bind_number = b.number]
               /\ tasks' = IF kind = "none" THEN tasks
                           ELSE tasks (+) SetToBag({NewTask(call.addr, b.number, kind)})
               /\ hist' = [hist EXCEPT !.c.created = (old.st = "None"),
                                       !.c.spawned = IF kind = "none" THEN @ ELSE @ + 1,
                                       !.c.bound_before = (call.addr \in hist.bound),
                                       !.bound = @ \ {call.addr}]
    /\ UNCHANGED <<read_ch_tx, refresh_alloc_timer, refresh_perms_timer, perm_map,
                   nonce, obs_lock, other_peers, lifetime, fired, read_ch, rx_lock, recv,
                   auth>>

(* The data path: a Send indication, or ChannelData on the number read,    *)
(* written through the observer's write_to under the observer mutex.       *)
send_to_write(ok) ==
    /\ call.op = "send_to" /\ call.pc = "write"
    /\ obs_lock = "free"
    /\ call' = Return(IF ok THEN "Ok" ELSE "WriteError")
    /\ hist' = [hist EXCEPT !.c.wrote =
                   Append(@, IF uses_indication(call.bind_st)
                             THEN <<"SendIndication", 0>>
                             ELSE <<"ChannelData", call.bind_number>>)]
    /\ UNCHANGED <<read_ch_tx, refresh_alloc_timer, refresh_perms_timer, perm_map,
                   bindings, nonce, obs_lock, tasks, other_peers, lifetime, fired, read_ch,
                   rx_lock, recv, auth>>

(* ---- the spawned bind / refresh task (tokio::spawn in send_to) ---- *)
ReplaceTask(t, u) == (tasks (-) SetToBag({t})) (+) SetToBag({u})

(* First block of the task: under the binding-manager mutex, mark the      *)
(* binding found at bind_addr Request (bind) or Refresh (refresh).         *)
task_start(t) ==
    /\ t.pc = "spawned"
    /\ bindings' = set_state(bindings, t.addr,
                             IF t.kind = "bind" THEN "Request" ELSE "Refresh")
    /\ tasks' = ReplaceTask(t, [t EXCEPT !.pc = "bind"])
    /\ UNCHANGED <<read_ch_tx, refresh_alloc_timer, refresh_perms_timer, perm_map,
                   nonce, obs_lock, call, hist, other_peers, lifetime, fired, read_ch,
                   rx_lock, recv, auth>>

(* bind(): build the ChannelBind request, take the observer mutex and      *)
(* hand the request to perform_transaction, which waits for the response   *)
(* with the mutex held.                                                    *)
task_bind(t) ==
    /\ t.pc = "bind"
    /\ obs_lock = "free"
    /\ obs_lock' = "task"
    /\ tasks' = ReplaceTask(t, [t EXCEPT !.pc = "inflight"])
    /\ UNCHANGED <<read_ch_tx, refresh_alloc_timer, refresh_perms_timer, perm_map,
                   bindings, nonce, call, hist, other_peers, lifetime, fired, read_ch,
                   rx_lock, recv, auth>>

(* The transaction ends: the observer mutex is released and bind() returns *)
(* Ok (ChannelBind success response), ERR_UNEXPECTED_RESPONSE (any other   *)
(* message) or the transaction's error.                                    *)
(* The binding manager after the task's last block, for bind()'s result.   *)
task_result(bm, t) ==
    IF t.result = "Ok"
    THEN IF t.kind = "refresh"
         THEN set_state(set_refreshed_at_now(bm, t.addr), t.addr, "Ready")
         ELSE set_state(bm, t.addr, "Ready")
    ELSE IF t.result # "UnexpectedResponse"
         THEN delete_by_addr(bm, t.addr)
         ELSE set_state(bm, t.addr, "Failed")

(* Mutant: the observer mutex is kept after the transaction.               *)
task_response_keeps_observer(t, outcome) ==
    /\ t.pc = "inflight"
    /\ tasks' = ReplaceTask(t, [t EXCEPT !.pc = "finish", !.result = outcome])
    /\ UNCHANGED <<read_ch_tx, refresh_alloc_timer, refresh_perms_timer, perm_map,
                   bindings, nonce, obs_lock, call, hist, other_peers, lifetime, fired,
                   read_ch, rx_lock, recv, auth>>

task_response(t, outcome) ==
    /\ t.pc = "inflight"
    /\ obs_lock' = "free"
    /\ tasks' = ReplaceTask(t, [t EXCEPT !.pc = "finish", !.result = outcome])
    /\ UNCHANGED <<read_ch_tx, refresh_alloc_timer, refresh_perms_timer, perm_map,
                   bindings, nonce, call, hist, other_peers, lifetime, fired, read_ch,
                   rx_lock, recv, auth>>

(* delete_by_addr removes the binding of addr: the bag of tasks B with     *)
(* every task of addr marked stale.                                        *)
Outdated(B, addr) ==
    LET mark(u) == IF u.addr = addr THEN [u EXCEPT !.stale = TRUE] ELSE u
    IN [v \in {mark(u) : u \in BagToSet(B)} |->
            IF v.addr = addr
            THEN CopiesIn(v, B) + CopiesIn([v EXCEPT !.stale = FALSE], B)
            ELSE CopiesIn(v, B)]

(* Last block of the task, under the binding-manager mutex.                *)
task_finish(t) ==
    /\ t.pc = "finish"
    /\ bindings' = task_result(bindings, t)
    /\ tasks' = IF task_result(bindings, t)[t.addr].st = "None"
                THEN Outdated(tasks (-) SetToBag({t}), t.addr)
                ELSE tasks (-) SetToBag({t})
    /\ hist' = [hist EXCEPT !.bound = IF t.result = "Ok" THEN @ \cup {t.addr} ELSE @]
    /\ UNCHANGED <<read_ch_tx, refresh_alloc_timer, refresh_perms_timer, perm_map,
                   nonce, obs_lock, call, other_peers, lifetime, fired, read_ch, rx_lock,
                   recv, auth>>

(* ---- RelayConn::close and RelayConnInternal::close ---- *)
(* Mutant: close does not look at read_ch_tx.                              *)
is_closed_never(tx) == FALSE

is_closed(tx) == tx = "None"

(* self.refresh_alloc_timer.stop(), self.refresh_perms_timer.stop(): the   *)
(* timer after close has called stop on it.                                *)
(* Mutant: close leaves the timer as it is.                                *)
close_timer_keep(t) == t

close_timer(t) == "stopped"

(* RelayConn::close: AlreadyClosed when read_ch_tx is gone; otherwise stop *)
(* both timers, drop read_ch_tx and take the RelayConnInternal mutex.      *)
close_begin ==
    /\ call.pc = "idle"
    /\ hist' = [hist EXCEPT !.c = [CallHist EXCEPT !.after_close = (read_ch_tx = "None")]]
    /\ IF is_closed(read_ch_tx)
       THEN /\ call' = [IdleCall EXCEPT !.op = "close", !.pc = "return",
                                             !.result = "AlreadyClosed"]
            /\ UNCHANGED <<read_ch_tx, refresh_alloc_timer, refresh_perms_timer>>
       ELSE /\ refresh_alloc_timer' = close_timer(refresh_alloc_timer)
            /\ refresh_perms_timer' = close_timer(refresh_perms_timer)
            /\ read_ch_tx' = "None"
            /\ call' = [IdleCall EXCEPT !.op = "close", !.pc = "on_deallocated"]
    /\ UNCHANGED <<perm_map, bindings, nonce, obs_lock, tasks, other_peers, lifetime,
                   fired, read_ch, rx_lock, recv, auth>>

(* RelayConnInternal::close, first block: on_deallocated under the         *)
(* observer mutex.                                                         *)
close_on_deallocated ==
    /\ call.op = "close" /\ call.pc = "on_deallocated"
    /\ obs_lock = "free"
    /\ call' = [call EXCEPT !.pc = "refresh"]
    /\ hist' = [hist EXCEPT !.c.deallocs = @ + 1, !.deallocs = @ + 1]
    /\ UNCHANGED <<read_ch_tx, refresh_alloc_timer, refresh_perms_timer, perm_map,
                   bindings, nonce, obs_lock, tasks, other_peers, lifetime, fired, read_ch,
                   rx_lock, recv, auth>>

(* refresh_allocation(0, dont_wait = true): under the observer mutex the   *)
(* Refresh request goes to perform_transaction, which returns once it is   *)
(* sent (sent) or fails; no response is read.                              *)
CLOSE_LIFETIME == 0
refresh_allocation_dont_wait(sent) == IF sent THEN "Ok" ELSE "Transaction"

close_refresh(sent) ==
    /\ call.op = "close" /\ call.pc = "refresh"
    /\ obs_lock = "free"
    /\ LET r == refresh_allocation_dont_wait(sent)
       IN /\ call' = Return(r)
          /\ hist' = [hist EXCEPT !.c.refreshes = @ + 1, !.refreshes = @ + 1,
                                  !.c.refresh_sent = sent,
                                  !.c.last_req = refresh_request(CLOSE_LIFETIME, TRUE, nonce)]
    /\ UNCHANGED <<read_ch_tx, refresh_alloc_timer, refresh_perms_timer, perm_map,
                   bindings, nonce, obs_lock, tasks, other_peers, lifetime, fired, read_ch,
                   rx_lock, recv, auth>>

(* The call returns to its caller: its locals are dropped and the         *)
(* RelayConnInternal mutex is released.                                    *)
call_return ==
    /\ call.pc = "return"
    /\ call' = IdleCall
    /\ hist' = [hist EXCEPT !.c = CallHist]
    /\ UNCHANGED <<read_ch_tx, refresh_alloc_timer, refresh_perms_timer, perm_map,
                   bindings, nonce, obs_lock, tasks, other_peers, lifetime, fired, read_ch,
                   rx_lock, recv, auth>>

(* ---- RelayConnInternal::refresh_allocation(lifetime, dont_wait = false) ---- *)
(* What a response becomes: "Transaction" when perform_transaction failed, *)
(* "ErrorType" for an error response without ERROR-CODE, "TryAgain" for    *)
(* 438, Ok for any other error response, "AttributeNotFound" for a         *)
(* success response without LIFETIME, Ok for one with it.                  *)
(* Mutant: an error response with another code than 438 is an error.       *)
refresh_allocation_strict(resp) ==
    IF resp.tx = "err" THEN "Transaction"
    ELSE IF resp.class = "error"
         THEN IF resp.code = NoCode THEN "ErrorType"
              ELSE IF resp.code = CODE_STALE_NONCE THEN "TryAgain"
              ELSE "ErrorCode"
         ELSE IF resp.lifetime = NoLifetime THEN "AttributeNotFound" ELSE "Ok"

refresh_allocation(resp) ==
    IF resp.tx = "err" THEN "Transaction"
    ELSE IF resp.class = "error"
         THEN IF resp.code = NoCode THEN "ErrorType"
              ELSE IF resp.code = CODE_STALE_NONCE THEN "TryAgain"
              ELSE "Ok"
         ELSE IF resp.lifetime = NoLifetime THEN "AttributeNotFound" ELSE "Ok"

(* self.lifetime after refresh_allocation has handled resp *)
lifetime_after(lt, resp) ==
    IF IsSuccess(resp) /\ resp.lifetime # NoLifetime THEN resp.lifetime ELSE lt

(* ---- PeriodicTimer (client/periodic_timer.rs) ---- *)
timer(id) == IF id = "Alloc" THEN refresh_alloc_timer ELSE refresh_perms_timer
(* The period a timer was given when it was made, in seconds.              *)
PERM_REFRESH_INTERVAL == 120
interval(id) == IF id = "Alloc" THEN ConfigLifetime \div 2 ELSE PERM_REFRESH_INTERVAL

(* The timer's task is its callback. *)
InCallback(id) == call.op = "on_timeout" /\ call.id = id

(* The period of a running timer elapses: its task goes on to take the     *)
(* RelayConnInternal mutex for on_timeout.  The task is sequential, so     *)
(* the period is not counted while the callback is due or running.         *)
timer_fire(id) ==
    /\ timer(id) = "running"
    /\ id \notin fired
    /\ ~InCallback(id)
    /\ fired' = fired \cup {id}
    /\ UNCHANGED <<read_ch_tx, refresh_alloc_timer, refresh_perms_timer, perm_map,
                   bindings, nonce, obs_lock, call, tasks, other_peers, lifetime, hist,
                   read_ch, rx_lock, recv, auth>>

(* ---- RelayConnInternal::on_timeout ---- *)
(* The loops of on_timeout (for _ in 0..MAX_RETRY_ATTEMPTS): where the     *)
(* callback goes after the attempt-th pass returned r; `again` is the pass.*)
on_timeout_pc(r, attempt, again) ==
    IF r # "Ok" /\ r # "TryAgain" THEN "return"
    ELSE IF attempt < MAX_RETRY_ATTEMPTS THEN again
    ELSE "return"

(* The timer's task has the RelayConnInternal mutex and enters on_timeout; *)
(* the Alloc branch reads self.lifetime once, before its loop.             *)
on_timeout_begin(id) ==
    /\ id \in fired
    /\ call.pc = "idle"
    /\ fired' = fired \ {id}
    /\ call' = [IdleCall EXCEPT !.op = "on_timeout", !.id = id,
                                !.lifetime = IF id = "Alloc" THEN lifetime ELSE 0,
                                !.pc = IF id = "Alloc" THEN "refresh" ELSE "perms"]
    /\ hist' = [hist EXCEPT !.c = [CallHist EXCEPT !.after_close = (read_ch_tx = "None")],
                            !.late[id] = IF read_ch_tx = "None" /\ @ < 2 THEN @ + 1 ELSE @]
    /\ UNCHANGED <<read_ch_tx, refresh_alloc_timer, refresh_perms_timer, perm_map,
                   bindings, nonce, obs_lock, tasks, other_peers, lifetime, read_ch,
                   rx_lock, recv, auth>>

(* refresh_allocation: under the observer mutex the Refresh request, built *)
(* with the lifetime passed in and the current nonce, goes to              *)
(* perform_transaction.                                                    *)
on_timeout_refresh ==
    /\ call.op = "on_timeout" /\ call.pc = "refresh"
    /\ obs_lock = "free"
    /\ obs_lock' = "conn"
    /\ call' = [call EXCEPT !.pc = "refresh_wait"]
    /\ hist' = [hist EXCEPT !.c.refreshes = @ + 1,
                            !.c.last_req = refresh_request(call.lifetime, FALSE, nonce)]
    /\ UNCHANGED <<read_ch_tx, refresh_alloc_timer, refresh_perms_timer, perm_map,
                   bindings, nonce, tasks, other_peers, lifetime, fired, read_ch, rx_lock,
                   recv, auth>>

(* The Refresh transaction ends with resp. *)
on_timeout_refresh_response(resp) ==
    /\ call.op = "on_timeout" /\ call.pc = "refresh_wait"
    /\ obs_lock' = "free"
    /\ LET r == refresh_allocation(resp)
           attempt == call.attempt + 1
       IN /\ nonce' = nonce_after(nonce, resp)
          /\ lifetime' = lifetime_after(lifetime, resp)
          /\ call' = [call EXCEPT !.attempt = attempt, !.result = r,
                                  !.pc = on_timeout_pc(r, attempt, "refresh")]
          /\ hist' = [hist EXCEPT !.c.last_resp = resp,
                                  !.c.first_resp = IF call.attempt = 0 THEN resp ELSE @,
                                  !.c.cp_stale = IF IsStaleNonce(resp) THEN @ + 1 ELSE @]
    /\ UNCHANGED <<read_ch_tx, refresh_alloc_timer, refresh_perms_timer, perm_map,
                   bindings, tasks, other_peers, fired, read_ch, rx_lock, recv, auth>>

(* PermissionMap::addrs *)
addrs(pm) == {i \in IPs : pm[i] # "None"}

(* refresh_permissions: nothing to do without a permission; otherwise one  *)
(* CreatePermission for every ip of the table goes to perform_transaction. *)
on_timeout_perms ==
    /\ call.op = "on_timeout" /\ call.pc = "perms"
    /\ IF addrs(perm_map) = {}
       THEN /\ call' = [call EXCEPT !.attempt = @ + 1, !.result = "Ok",
                                    !.pc = on_timeout_pc("Ok", call.attempt + 1, "perms")]
            /\ UNCHANGED <<obs_lock, hist>>
       ELSE /\ obs_lock = "free"
            /\ obs_lock' = "conn"
            /\ call' = [call EXCEPT !.pc = "perms_wait"]
            /\ hist' = [hist EXCEPT !.c.cps = @ + 1,
                                    !.c.last_req = create_permission_request(nonce)]
    /\ UNCHANGED <<read_ch_tx, refresh_alloc_timer, refresh_perms_timer, perm_map,
                   bindings, nonce, tasks, other_peers, lifetime, fired, read_ch, rx_lock,
                   recv, auth>>

(* The CreatePermission transaction of refresh_permissions ends with resp. *)
on_timeout_perms_response(resp) ==
    /\ call.op = "on_timeout" /\ call.pc = "perms_wait"
    /\ obs_lock' = "free"
    /\ LET r == create_permissions(resp)
           attempt == call.attempt + 1
       IN /\ nonce' = nonce_after(nonce, resp)
          /\ call' = [call EXCEPT !.attempt = attempt, !.result = r,
                                  !.pc = on_timeout_pc(r, attempt, "perms")]
          /\ hist' = [hist EXCEPT !.c.last_resp = resp,
                                  !.c.first_resp = IF call.attempt = 0 THEN resp ELSE @,
                                  !.c.cp_stale = IF IsStaleNonce(resp) THEN @ + 1 ELSE @]
    /\ UNCHANGED <<read_ch_tx, refresh_alloc_timer, refresh_perms_timer, perm_map,
                   bindings, tasks, other_peers, lifetime, fired, read_ch, rx_lock, recv,
                   auth>>

(* ---- the inbound queue: RelayConn::handle_inbound and recv_from ---- *)
(* The k-th packet the demultiplexer hands in; its payload stands for k.   *)
InboundData(k, from) == [data |-> k, from |-> from]

(* try_send on the bounded channel: the packet is dropped when the queue   *)
(* holds MAX_READ_QUEUE_SIZE packets.                                      *)
try_send(q, ib) == IF Len(q) < MAX_READ_QUEUE_SIZE THEN Append(q, ib) ELSE q

handle_inbound(from) ==
    /\ hist.arrived < MaxInbound
    /\ IF read_ch_tx = "Some"
       THEN /\ read_ch' = try_send(read_ch, InboundData(hist.arrived + 1, from))
            /\ hist' = [hist EXCEPT !.arrived = @ + 1, !.inbound = "Ok"]
       ELSE /\ hist' = [hist EXCEPT !.inbound = "AlreadyClosed"]
            /\ UNCHANGED read_ch
    /\ UNCHANGED <<read_ch_tx, refresh_alloc_timer, refresh_perms_timer, perm_map,
                   bindings, nonce, obs_lock, call, tasks, other_peers, lifetime, fired,
                   rx_lock, recv, auth>>

(* recv_from is called with a buffer that holds a packet ("fits") or does  *)
(* not ("short"), and waits for the read_ch_rx mutex.                      *)
recv_from_begin(r, buf) ==
    /\ recv[r].pc = "idle"
    /\ recv' = [recv EXCEPT ![r] = [IdleRecv EXCEPT !.pc = "lock", !.buf = buf]]
    /\ UNCHANGED <<read_ch_tx, refresh_alloc_timer, refresh_perms_timer, perm_map,
                   bindings, nonce, obs_lock, call, tasks, other_peers, lifetime, fired,
                   read_ch, rx_lock, hist, auth>>

(* self.read_ch_rx.lock().await *)
recv_from_lock(r) ==
    /\ recv[r].pc = "lock"
    /\ rx_lock = NoReceiver
    /\ rx_lock' = r
    /\ recv' = [recv EXCEPT ![r].pc = "recv"]
    /\ UNCHANGED <<read_ch_tx, refresh_alloc_timer, refresh_perms_timer, perm_map,
                   bindings, nonce, obs_lock, call, tasks, other_peers, lifetime, fired,
                   read_ch, hist, auth>>

(* What recv_from returns for a packet it has taken out of the queue.      *)
recv_result(buf) == IF buf = "short" THEN "ShortBuffer" ELSE "Ok"

(* read_ch_rx.recv() yields the head of the queue; recv_from returns it,   *)
(* or ShortBuffer, and drops the mutex guard.                              *)
recv_from_some(r) ==
    /\ recv[r].pc = "recv"
    /\ read_ch # <<>>
    /\ read_ch' = Tail(read_ch)
    /\ rx_lock' = NoReceiver
    /\ recv' = [recv EXCEPT ![r].pc = "return",
                            ![r].result = recv_result(recv[r].buf),
                            ![r].data = IF recv_result(recv[r].buf) = "Ok"
                                        THEN Head(read_ch).data ELSE 0]
    /\ hist' = [hist EXCEPT !.taken = @ + 1]
    /\ UNCHANGED <<read_ch_tx, refresh_alloc_timer, refresh_perms_timer, perm_map,
                   bindings, nonce, obs_lock, call, tasks, other_peers, lifetime, fired,
                   auth>>

(* What read_ch_rx.recv() yields on an empty queue: None once the sender   *)
(* is dropped; until then it waits.                                        *)
(* Mutant: the receiver is not told that the sender is gone.               *)
sender_dropped_never(tx) == FALSE

sender_dropped(tx) == tx = "None"

(* read_ch_rx.recv() yields None: the queue is empty and its sender        *)
(* (read_ch_tx) has been dropped; recv_from returns AlreadyClosed.         *)
recv_from_none(r) ==
    /\ recv[r].pc = "recv"
    /\ read_ch = <<>>
    /\ sender_dropped(read_ch_tx)
    /\ rx_lock' = NoReceiver
    /\ recv' = [recv EXCEPT ![r].pc = "return", ![r].result = "AlreadyClosed"]
    /\ UNCHANGED <<read_ch_tx, refresh_alloc_timer, refresh_perms_timer, perm_map,
                   bindings, nonce, obs_lock, call, tasks, other_peers, lifetime, fired,
                   read_ch, hist, auth>>

recv_from_return(r) ==
    /\ recv[r].pc = "return"
    /\ recv' = [recv EXCEPT ![r] = IdleRecv]
    /\ UNCHANGED <<read_ch_tx, refresh_alloc_timer, refresh_perms_timer, perm_map,
                   bindings, nonce, obs_lock, call, tasks, other_peers, lifetime, fired,
                   read_ch, rx_lock, hist, auth>>

(* Time passes, TickSecs seconds at a time.  A binding keeps the time    *)
(* since its refreshed_at in ticks (now - refreshed_at); it is counted     *)
(* until it exceeds the refresh threshold, the only thing it is compared   *)
(* with.                                                                   *)
Ageing(b) == b.st # "None" /\ b.refreshed_ago * TickSecs <= BIND_REFRESH_SECS

Tick ==
    /\ \E a \in Addrs : Ageing(bindings[a])
    /\ bindings' = [a \in Addrs |->
                       IF Ageing(bindings[a])
                       THEN [bindings[a] EXCEPT !.refreshed_ago = @ + 1]
                       ELSE bindings[a]]
    /\ UNCHANGED <<read_ch_tx, refresh_alloc_timer, refresh_perms_timer, perm_map,
                   nonce, obs_lock, call, tasks, hist, other_peers, lifetime, fired,
                   read_ch, rx_lock, recv, auth>>

(***************************************************************************)
(* Properties.  A call's result and its history are read in the state      *)
(* where it returns (call.pc = "return"), before its caller goes on.       *)
(***************************************************************************)
Returned(op) == call.op = op /\ call.pc = "return"
Ip == call.addr.ip
Frames == hist.c.wrote
IsChannelData(f) == f[1] = "ChannelData"
IsSendIndication(f) == f[1] = "SendIndication"

(* C1: a send_to that begins after close() issues no CreatePermission,     *)
(* writes no Send indication and no ChannelData, and returns an error.     *)
C1_SendAfterCloseFails ==
    (call.op = "send_to" /\ hist.c.after_close) =>
        /\ hist.c.cps = 0
        /\ Frames = <<>>
        /\ (call.pc = "return" => call.result # "Ok")

C3_PermittedOnce ==
    /\ (Returned("send_to") /\ hist.c.cp_ok) => find(perm_map, call.addr) = "Permitted"
    /\ (call.op = "send_to" /\ hist.c.granted_before) => hist.c.cps = 0

(* C4: when the first CreatePermission of a send_to is answered 438 and    *)
(* the second succeeds, two CreatePermission transactions were issued and  *)
(* the table still holds the ip's permission, in state Permitted.          *)
C4_StaleNonceKeepsPermission ==
    (Returned("send_to") /\ hist.c.cp_stale = 1 /\ hist.c.cp_ok) =>
        /\ hist.c.cps = 2
        /\ find(perm_map, call.addr) # "None"
        /\ find(perm_map, call.addr) = "Permitted"

(* C5 as stated: a send_to issues at most 3 CreatePermission transactions  *)
(* and never returns TryAgain.                                             *)
C5_NeverTryAgain ==
    call.op = "send_to" =>
        /\ hist.c.cps <= 3
        /\ (call.pc = "return" => call.result # "TryAgain")

(* C5 as amended: a send_to issues at most 3 CreatePermission              *)
(* transactions; an answer of 438 to the first or the second is retried   *)
(* and not returned; it returns TryAgain exactly when all 3 were answered  *)
(* 438.                                                                    *)
C5_RetryBound ==
    call.op = "send_to" =>
        /\ hist.c.cps <= 3
        /\ (call.pc = "return" /\ call.result = "TryAgain") =>
              (hist.c.cps = 3 /\ hist.c.cp_stale = 3)
        /\ (call.pc = "return" /\ hist.c.cp_stale = 3) => call.result = "TryAgain"
        /\ (hist.c.cp_stale >= 1 /\ hist.c.cps = hist.c.cp_stale /\ hist.c.cps < 3) =>
              call.pc = "create_perm"

(* C5 witness: a send_to whose 3 attempts were all answered 438 has        *)
(* returned.                                                               *)
C5_Witness ==
    Returned("send_to") /\ hist.c.cps = 3 /\ hist.c.cp_stale = 3 /\ call.result = "TryAgain"

(* The error the specification names for a failed CreatePermission.        *)
ErrorOf(resp) ==
    IF resp.tx = "err" THEN "Transaction"
    ELSE IF resp.code = NoCode THEN "ErrorType"
    ELSE "ErrorCode"
FailedOther(resp) == resp.tx # "none" /\ ~IsSuccess(resp) /\ ~IsStaleNonce(resp)

(* C6: when a CreatePermission of send_to fails with anything but 438,     *)
(* send_to returns that error at once, the ip's permission is gone from    *)
(* the table, and the call has created no binding, spawned no bind task    *)
(* and written nothing.                                                    *)
C6_CreatePermFailure ==
    (call.op = "send_to" /\ FailedOther(hist.c.last_resp)) =>
        /\ call.pc = "return"
        /\ call.result = ErrorOf(hist.c.last_resp)
        /\ find(perm_map, call.addr) = "None"
        /\ ~hist.c.created
        /\ hist.c.spawned = 0
        /\ Frames = <<>>

(* C6 witness: a send_to to a peer that already has a binding has returned *)
(* the error of a CreatePermission answered with another code than 438.    *)
C6_Witness ==
    /\ Returned("send_to")
    /\ hist.c.last_resp.code = OtherErrorCode
    /\ call.result = "ErrorCode"
    /\ find_by_addr(bindings, call.addr).st # "None"

C8_DataPath ==
    /\ (Returned("send_to") /\ call.result = "Ok") =>
          /\ Len(Frames) = 1
          /\ call.bind_st \in {"Ready", "Refresh"} =>
                Frames[1] = <<"ChannelData", call.bind_number>>
          /\ call.bind_st \in {"Idle", "Request", "Failed"} => IsSendIndication(Frames[1])
    /\ (call.op = "send_to" /\ hist.c.bound_before /\ Frames # <<>>) =>
          IsChannelData(Frames[1])

(* C9: at most one bind task (initial bind or refresh) is unfinished per   *)
(* peer address.                                                           *)
C9_OneBindPerBinding == \A a \in Addrs : Outstanding(a) <= 1

(* C10: a send_to that has reached its write is never kept waiting by a    *)
(* ChannelBind transaction in flight (which holds the observer mutex until *)
(* its response arrives).                                                  *)
C10_BindDoesNotBlockSend ==
    ~(/\ call.op = "send_to" /\ call.pc = "write"
      /\ obs_lock = "task"
      /\ \E t \in BagToSet(tasks) : t.pc = "inflight")

(* C11: every binding has a permission entry for its peer's ip, and the    *)
(* permission of a binding in state Ready or Refresh is Permitted.         *)
C11_BindingHasPermission ==
    \A a \in Addrs :
        find_by_addr(bindings, a).st # "None" =>
            /\ find(perm_map, a) # "None"
            /\ find_by_addr(bindings, a).st \in {"Ready", "Refresh"} =>
                  find(perm_map, a) = "Permitted"

(* ---- channel numbers ---- *)
FreeNumbers ==
    IF other_peers = "all" THEN {}
    ELSE IF other_peers = "all_but_two" THEN TwoFree
    ELSE AllNumbers
Lowest(S) == CHOOSE m \in S : \A k \in S : m <= k

(* The connection after the application has sent to many other peers: the  *)
(* bindings of those peers hold every channel number, or every number but  *)
(* two.                                                                    *)
InitChan == InitConn /\ other_peers \in {"all", "all_but_two"} /\ auth = NoAuth

(* C12: every binding's channel number is in [0x4000, 0x7FFF] and no other *)
(* binding has it; a binding that send_to creates gets the lowest free     *)
(* number; and when no number is free, send_to creates no binding, writes  *)
(* nothing and returns an error.                                           *)
C12_ChannelNumbers ==
    /\ \A a \in Addrs :
          find_by_addr(bindings, a).st # "None" =>
              /\ find_by_addr(bindings, a).number \in AllNumbers
              /\ find_by_addr(bindings, a).number \in FreeNumbers
              /\ \A b \in Addrs \ {a} :
                    find_by_addr(bindings, b).st # "None" =>
                        find_by_addr(bindings, b).number # find_by_addr(bindings, a).number
    /\ (call.op = "send_to" /\ hist.c.created) =>
          (FreeNumbers # {} /\ call.bind_number = Lowest(FreeNumbers))
    /\ FreeNumbers = {} =>
          /\ \A a \in Addrs : find_by_addr(bindings, a).st = "None"
          /\ call.op = "send_to" => (call.pc # "write" /\ Frames = <<>>)
          /\ (Returned("send_to") /\ hist.c.cp_ok) => call.result = "AddrNotFound"

(* C12 witness: with every channel number taken, a send_to whose           *)
(* CreatePermission succeeded has returned the error of create.            *)
C12_Witness ==
    /\ FreeNumbers = {}
    /\ Returned("send_to") /\ hist.c.cp_ok /\ call.result = "AddrNotFound"

(* A binding on the lower of the two free numbers, created by this call.   *)
C12_WitnessLowest ==
    /\ call.op = "send_to" /\ hist.c.created
    /\ Cardinality(FreeNumbers) = 2
    /\ call.bind_number = MIN_CHANNEL_NUMBER + 1

(* C13: the first close notifies the observer (on_deallocated) and then   *)
(* hands one Refresh with lifetime 0 to perform_transaction in dont_wait   *)
(* mode; it returns without ever waiting for a response; and no step of    *)
(* close changes the lifetime or the nonce.                                *)
CloseStep == call.op = "close" \/ call'.op = "close"
C13_CloseRefresh ==
    [][/\ CloseStep => (nonce' = nonce /\ lifetime' = lifetime)
       /\ (call'.op = "close" /\ ~hist'.c.after_close) =>
             /\ call'.pc \in {"on_deallocated", "refresh", "return"}
             /\ hist'.c.deallocs = (IF call'.pc = "on_deallocated" THEN 0 ELSE 1)
             /\ hist'.c.refreshes = (IF call'.pc = "return" THEN 1 ELSE 0)
             /\ hist'.c.cps = 0
             /\ call'.pc = "return" =>
                   hist'.c.last_req = [method |-> "Refresh", lifetime |-> 0,
                                       dont_wait |-> TRUE, nonce |-> nonce']
       /\ call'.op = "close" => (obs_lock' # "conn" /\ hist'.c.last_resp = NoResponse)]_vars

(* C13 witness: a close has returned after the nonce and the lifetime had  *)
(* been replaced by the server's.                                          *)
C13_Witness ==
    /\ Returned("close") /\ ~hist.c.after_close
    /\ hist.c.refreshes = 1 /\ hist.c.last_req.dont_wait
    /\ nonce = "N2" /\ lifetime = ServerLifetime

(* C14: once close has stopped the timers no period elapses any more, and *)
(* of each timer at most one callback begins after close: the one whose    *)
(* period had elapsed before the timer was stopped.  So after close the    *)
(* timers issue no Refresh and no CreatePermission beyond those of that    *)
(* one callback.                                                           *)
C14_Inv ==
    \A id \in TimerIds :
        /\ read_ch_tx = "None" => timer(id) = "stopped"
        /\ hist.late[id] <= 1
        /\ (read_ch_tx = "None" /\ id \in fired) => hist.late[id] = 0
        /\ (InCallback(id) /\ hist.c.after_close) => hist.late[id] = 1
C14_TimersStopAfterClose ==
    [][C14_Inv' /\ (read_ch_tx = "None" => fired' \subseteq fired)]_vars

(* C14 witness: the one callback of the alloc timer that began after close *)
(* has sent its Refresh, and the perms timer's callback is still due.      *)
C14_Witness ==
    /\ InCallback("Alloc") /\ hist.c.after_close /\ hist.c.refreshes > 0
    /\ "Perms" \in fired

(* C15: the queue hands out the packets in the order they arrived, also   *)
(* after close; recv_from returns AlreadyClosed only when the connection   *)
(* is closed and the queue drained; and a recv_from that is waiting (for   *)
(* the mutex or for a packet) when the connection is closed returns.       *)
Waiting(r) == recv[r].pc \in {"lock", "recv"}
C15_Inv ==
    /\ Len(read_ch) = hist.arrived - hist.taken
    /\ \A i \in 1..Len(read_ch) : read_ch[i].data = hist.taken + i
    /\ \A r \in Receivers :
          /\ (recv[r].pc = "return" /\ recv[r].result = "Ok") =>
                (recv[r].data >= 1 /\ recv[r].data <= hist.taken)
          /\ (recv[r].pc = "return" /\ recv[r].result = "AlreadyClosed") =>
                (read_ch_tx = "None" /\ read_ch = <<>>)
    /\ \A r1, r2 \in Receivers :
          (/\ r1 # r2
           /\ recv[r1].pc = "return" /\ recv[r1].result = "Ok"
           /\ recv[r2].pc = "return" /\ recv[r2].result = "Ok") =>
              recv[r1].data # recv[r2].data
C15_RecvAfterClose ==
    /\ []C15_Inv
    /\ [][\A r \in Receivers :
            (recv[r].pc = "recv" /\ recv'[r].pc = "return" /\ recv'[r].result = "Ok") =>
                recv'[r].data = hist.taken + 1]_vars
    /\ \A r \in Receivers :
          (Waiting(r) /\ read_ch_tx = "None") ~> (recv[r].pc = "return")

(* C15 witness: after close, one receiver has been handed a packet that    *)
(* was in the queue when the connection was closed, and the other, with    *)
(* the queue drained, has returned AlreadyClosed.                          *)
C15_Witness ==
    /\ read_ch_tx = "None" /\ hist.inbound = "AlreadyClosed"
    /\ recv[1].pc = "return" /\ recv[1].result = "Ok" /\ recv[1].data = hist.arrived
    /\ recv[2].pc = "return" /\ recv[2].result = "AlreadyClosed"

(* C16: after a success response to Refresh that carries LIFETIME L the   *)
(* connection's lifetime is L, and the period of the alloc-refresh timer   *)
(* is half the connection's lifetime.                                      *)
C16_TimerFollowsLifetime ==
    /\ (/\ InCallback("Alloc")
        /\ IsSuccess(hist.c.last_resp)
        /\ hist.c.last_resp.lifetime # NoLifetime) =>
            lifetime = hist.c.last_resp.lifetime
    /\ interval("Alloc") = lifetime \div 2

(* C18: in a timer callback the refresh operation is invoked again only   *)
(* after an attempt that returned TryAgain, at most MAX_RETRY_ATTEMPTS     *)
(* times; a callback whose first attempt succeeds issues one transaction.  *)
C18_RetryOnlyOnTryAgain ==
    call.op = "on_timeout" =>
        /\ call.attempt <= MAX_RETRY_ATTEMPTS
        /\ hist.c.refreshes + hist.c.cps <= MAX_RETRY_ATTEMPTS
        /\ (call.attempt > 0 /\ call.pc # "return") => call.result = "TryAgain"
        /\ IsSuccess(hist.c.first_resp) => hist.c.refreshes + hist.c.cps = 1

(* C19: a CreatePermission or Refresh transaction answered with 438 and  *)
(* a NONCE leaves that NONCE as the connection's nonce and TryAgain as the *)
(* result; every request, the retry included, carries the nonce of the     *)
(* moment it is built; no other step changes the nonce.                    *)
WaitPcs == {"cp_wait", "refresh_wait", "perms_wait"}

TransactionAnswered == call.pc \in WaitPcs /\ call'.pc # call.pc

TransactionBegun == call.pc \notin WaitPcs /\ call'.pc \in WaitPcs

C19_StaleNonce ==
    [][/\ (/\ TransactionAnswered
           /\ IsStaleNonce(hist'.c.last_resp)
           /\ hist'.c.last_resp.nonce # NoNonce) =>
               /\ nonce' = hist'.c.last_resp.nonce
               /\ call'.result = "TryAgain"
       /\ TransactionBegun =>
               /\ hist'.c.last_req.nonce = nonce
               /\ (/\ call.attempt > 0
                   /\ IsStaleNonce(hist.c.last_resp)
                   /\ hist.c.last_resp.nonce # NoNonce) =>
                       hist'.c.last_req.nonce = hist.c.last_resp.nonce
       /\ nonce' # nonce =>
               /\ TransactionAnswered
               /\ IsStaleNonce(hist'.c.last_resp)
               /\ hist'.c.last_resp.nonce = nonce'
      ]_vars

C19_Witness ==
    /\ call.op = "on_timeout"
    /\ call.pc \in WaitPcs
    /\ call.attempt > 0
    /\ call.result = "TryAgain"
    /\ IsStaleNonce(hist.c.last_resp)
    /\ hist.c.last_resp.nonce = "N2"
    /\ nonce = "N2"
    /\ hist.c.last_req.nonce = "N2"
    /\ tasks # EmptyBag

(* C20: refresh_allocation that waits for the response and receives an   *)
(* error response with another code than 438 returns Ok and leaves the     *)
(* lifetime, the nonce, the permission table and the bindings as they      *)
(* were.                                                                   *)
OtherErrorAnswered ==
    /\ call.op = "on_timeout" /\ call.pc = "refresh_wait"
    /\ call'.pc # call.pc
    /\ hist'.c.last_resp.tx = "ok"
    /\ hist'.c.last_resp.class = "error"
    /\ hist'.c.last_resp.code \notin {NoCode, CODE_STALE_NONCE}

C20_RefreshIgnoresOtherErrors ==
    [][OtherErrorAnswered =>
          /\ call'.result = "Ok"
          /\ UNCHANGED <<lifetime, nonce, perm_map, bindings>>
      ]_vars

C20_Witness ==
    /\ call.op = "on_timeout" /\ call.id = "Alloc"
    /\ call.attempt = 1
    /\ call.result = "Ok"
    /\ hist.c.last_resp.tx = "ok"
    /\ hist.c.last_resp.class = "error"
    /\ hist.c.last_resp.code \notin {NoCode, CODE_STALE_NONCE}
    /\ hist.c.last_resp.nonce = "N2" /\ nonce = "N1"
    /\ hist.c.last_resp.lifetime = ServerLifetime /\ lifetime = ConfigLifetime
    /\ \E i \in IPs : perm_map[i] # "None"
    /\ \E a \in Addrs : bindings[a].st # "None"

(* C21: a bind task whose ChannelBind succeeded, for the initial bind as   *)
(* for a refresh, leaves the binding it finds Ready with refreshed_at the  *)
(* time of that success.                                                   *)
TaskFinishes(t) ==
    /\ t.pc = "finish"
    /\ tasks' \in {tasks (-) SetToBag({t}), Outdated(tasks (-) SetToBag({t}), t.addr)}

C21_BindSuccess ==
    [][\A t \in BagToSet(tasks) :
          (TaskFinishes(t) /\ t.result = "Ok" /\ bindings[t.addr].st # "None") =>
              /\ bindings'[t.addr].st = "Ready"
              /\ bindings'[t.addr].refreshed_ago = 0
      ]_vars

(* C22: a bind task whose ChannelBind was answered by anything but a      *)
(* ChannelBind success leaves the binding in place in state Failed; a task *)
(* whose bind() failed otherwise deletes the binding of its address; the   *)
(* permissions, the nonce and the lifetime stay as they are.               *)
C22_BindFailure ==
    [][\A t \in BagToSet(tasks) :
          (TaskFinishes(t) /\ t.result # "Ok") =>
              /\ t.result = "UnexpectedResponse" =>
                    bindings' = [bindings EXCEPT ![t.addr].st = "Failed"]
              /\ t.result # "UnexpectedResponse" => bindings'[t.addr] = NoBinding
              /\ UNCHANGED <<perm_map, nonce, lifetime>>
      ]_vars

(* C23: a binding in state Failed stays Failed: no step takes it to       *)
(* Request, Ready or Refresh, no ChannelBind is sent for its address, and  *)
(* a send_to that reads it spawns no task and writes a Send indication.    *)
ChannelBindSent(a) ==
    \E t \in BagToSet(tasks) :
        /\ t.addr = a /\ t.pc = "bind"
        /\ tasks' = ReplaceTask(t, [t EXCEPT !.pc = "inflight"])

C23_FailedIsTerminal ==
    [][\A a \in Addrs :
          bindings[a].st = "Failed" =>
              /\ bindings'[a].st \notin {"Request", "Ready", "Refresh"}
              /\ ~ChannelBindSent(a)
              /\ (call.op = "send_to" /\ call.addr = a /\ call.pc = "binding"
                  /\ call'.pc # call.pc) =>
                      /\ tasks' = tasks
                      /\ call'.bind_st = "Failed"
                      /\ uses_indication(call'.bind_st)
      ]_vars

(* ---- locks ---- *)
(* The three mutexes in the order the specification gives them.            *)
LockRank == [internal |-> 1, binding_mgr |-> 2, observer |-> 3]

(* What the call that owns the RelayConnInternal mutex holds, and the      *)
(* mutex its next step asks for.                                           *)
call_holds ==
    (IF call.op # "none" THEN {"internal"} ELSE {})
    \cup (IF obs_lock = "conn" THEN {"observer"} ELSE {})

call_requests ==
    IF call.pc = "binding" THEN {"binding_mgr"}
    ELSE IF call.pc \in {"create_perm", "write", "on_deallocated", "refresh"}
            \/ (call.pc = "perms" /\ addrs(perm_map) # {})
         THEN {"observer"}
    ELSE {}

(* The same for a spawned task, which never has the RelayConnInternal      *)
(* mutex.                                                                  *)
task_holds(t) == IF t.pc = "inflight" THEN {"observer"} ELSE {}

task_requests(t) ==
    IF t.pc \in {"spawned", "finish"} THEN {"binding_mgr"}
    ELSE IF t.pc = "bind" THEN {"observer"}
    ELSE {}

InOrder(holds, requests) ==
    \A h \in holds, r \in requests : LockRank[h] < LockRank[r]

InFlight == {t \in BagToSet(tasks) : t.pc = "inflight"}

(* The observer mutex has the holder its value names, and one holder.      *)
ObserverHeld ==
    /\ obs_lock = "conn" <=> call.pc \in WaitPcs
    /\ obs_lock = "task" <=> InFlight # {}
    /\ \A t \in InFlight : CopiesIn(t, tasks) = 1 /\ InFlight = {t}

CallCanStep ==
    \/ call.pc = "binding" /\ ENABLED send_to_binding
    \/ ENABLED
            (\/ send_to_create_perm
             \/ \E resp \in TxResponses : send_to_cp_response(resp)
             \/ \E ok \in BOOLEAN : send_to_write(ok)
             \/ close_on_deallocated
             \/ \E sent \in BOOLEAN : close_refresh(sent)
             \/ on_timeout_refresh
             \/ \E resp \in RefreshResponses : on_timeout_refresh_response(resp)
             \/ on_timeout_perms
             \/ \E resp \in TxResponses : on_timeout_perms_response(resp)
             \/ call_return)

TaskCanStep(t) ==
    ENABLED (\/ task_start(t)
             \/ task_bind(t)
             \/ \E outcome \in BindOutcomes : task_response(t, outcome)
             \/ task_finish(t))

(* C24: every task asks for the mutexes in the order internal, binding     *)
(* manager, observer; and whoever waits for a mutex waits for a holder     *)
(* that can take its next step, so that no state is a deadlock.            *)
C24_LockOrder ==
    /\ InOrder(call_holds, call_requests)
    /\ \A t \in BagToSet(tasks) : InOrder(task_holds(t), task_requests(t))
    /\ ObserverHeld
    /\ (call.op # "none" /\ ~CallCanStep) =>
          /\ call_requests = {"observer"}
          /\ \E t \in InFlight : TaskCanStep(t)
    /\ \A t \in BagToSet(tasks) :
          ~TaskCanStep(t) =>
              /\ task_requests(t) = {"observer"}
              /\ \/ call.pc \in WaitPcs /\ CallCanStep
                 \/ \E u \in InFlight : TaskCanStep(u)

C24_Witness ==
    /\ call.op = "send_to" /\ call.pc = "write"
    /\ ~CallCanStep
    /\ InFlight # {}
    /\ fired # {}

(* C25: a binding becomes Ready only in the last block of a bind task      *)
(* whose ChannelBind succeeded and that was spawned for this very binding  *)
(* record (same address, same channel number, not deleted since): a task   *)
(* whose binding has been deleted and created again never marks the new    *)
(* binding Ready.                                                          *)
BecomesReady(a) == bindings[a].st # "Ready" /\ bindings'[a].st = "Ready"

C25_ReadyByOwnBind ==
    [][\A a \in Addrs :
          BecomesReady(a) =>
              \E t \in TasksFor(a) :
                  /\ TaskFinishes(t)
                  /\ t.result = "Ok"
                  /\ t.number = bindings'[a].number
                  /\ ~t.stale
      ]_vars

(* ---- long-term credentials (auth) ---- *)
(* Strings are sequences of character codes.                               *)
(* 32-bit words are pairs <<high, low>> of 16-bit halves; the bitwise     *)
(* operations go through a table over 4-bit digits.                        *)
bit(op, x, y) ==
    IF op = "xor" THEN (x + y) % 2
    ELSE IF op = "and" THEN x * y
    ELSE (x + y) - (x * y)

nibble(op, a, b) ==
    bit(op, a % 2, b % 2)
    + (2 * bit(op, (a \div 2) % 2, (b \div 2) % 2))
    + (4 * bit(op, (a \div 4) % 2, (b \div 4) % 2))
    + (8 * bit(op, a \div 8, b \div 8))

NibbleTable == [op \in {"xor", "and", "or"} |-> [a \in 0..15 |-> [b \in 0..15 |-> nibble(op, a, b)]]]

byte_op(op, a, b) ==
    (16 * NibbleTable[op][a \div 16][b \div 16]) + NibbleTable[op][a % 16][b % 16]

half_op(op, a, b) ==
    (256 * byte_op(op, a \div 256, b \div 256)) + byte_op(op, a % 256, b % 256)

xor32(a, b) == <<half_op("xor", a[1], b[1]), half_op("xor", a[2], b[2])>>
and32(a, b) == <<half_op("and", a[1], b[1]), half_op("and", a[2], b[2])>>
or32(a, b) == <<half_op("or", a[1], b[1]), half_op("or", a[2], b[2])>>
not32(a) == <<65535 - a[1], 65535 - a[2]>>
add32(a, b) ==
    LET l == a[2] + b[2]
    IN  <<(a[1] + b[1] + (l \div 65536)) % 65536, l % 65536>>

rotl32(a, n) ==
    LET s == IF n >= 16 THEN <<a[2], a[1]>> ELSE a
        k == n % 16
        p == 2 ^ k
        q == 2 ^ (16 - k)
    IN  <<((s[1] * p) % 65536) + (s[2] \div q), ((s[2] * p) % 65536) + (s[1] \div q)>>

(* Message padding shared by SHA-1 (length big-endian) and MD5 (length   *)
(* little-endian); the messages here are shorter than 8192 bytes.          *)
zeros(n) == [i \in 1..n |-> 0]

len_be(n) == <<0, 0, 0, 0, 0, 0, (n * 8) \div 256, (n * 8) % 256>>
len_le(n) == <<(n * 8) % 256, (n * 8) \div 256, 0, 0, 0, 0, 0, 0>>

pad(m, lenbytes) ==
    LET n == Len(m)
        z == (55 - n) % 64
    IN  m \o <<128>> \o zeros(z) \o lenbytes

word_be(m, i) == <<(m[i] * 256) + m[i + 1], (m[i + 2] * 256) + m[i + 3]>>
word_le(m, i) == <<(m[i + 3] * 256) + m[i + 2], (m[i + 1] * 256) + m[i]>>
bytes_be(w) == <<w[1] \div 256, w[1] % 256, w[2] \div 256, w[2] % 256>>
bytes_le(w) == <<w[2] % 256, w[2] \div 256, w[1] % 256, w[1] \div 256>>

(* SHA-1 (RFC 3174), one 64-byte block at a time; the message schedule   *)
(* is kept as a window of 16 words.                                        *)
sha1_f(t, b, c, d) ==
    IF t < 20 THEN or32(and32(b, c), and32(not32(b), d))
    ELSE IF t < 40 THEN xor32(xor32(b, c), d)
    ELSE IF t < 60 THEN or32(or32(and32(b, c), and32(b, d)), and32(c, d))
    ELSE xor32(xor32(b, c), d)

sha1_k(t) ==
    IF t < 20 THEN <<23170, 31129>>
    ELSE IF t < 40 THEN <<28377, 60321>>
    ELSE IF t < 60 THEN <<36635, 48348>>
    ELSE <<51810, 49622>>

sha1_round(s, t) ==
    LET h == s.h
        w == s.w
        tmp == add32(add32(add32(rotl32(h[1], 5), sha1_f(t, h[2], h[3], h[4])),
                           add32(h[5], sha1_k(t))), w[1])
        x == xor32(xor32(w[14], w[9]), xor32(w[3], w[1]))
    IN  [h |-> <<tmp, h[1], rotl32(h[2], 30), h[3], h[4]>>,
         w |-> Tail(w) \o <<rotl32(x, 1)>>]

RECURSIVE sha1_rounds(_, _, _)
sha1_rounds(s, lo, hi) ==
    IF DOMAIN s = {} THEN s
    ELSE IF hi = lo + 1 THEN sha1_round(s, lo)
    ELSE LET mid == (lo + hi) \div 2
         IN  sha1_rounds(sha1_rounds(s, lo, mid), mid, hi)

sha1_add(h, s) == [i \in 1..5 |-> add32(h[i], s.h[i])]

sha1_block(h, m, off) ==
    sha1_add(h, sha1_rounds([h |-> h, w |-> [i \in 1..16 |-> word_be(m, off + (4 * (i - 1)) + 1)]],
                            0, 80))

RECURSIVE sha1_blocks(_, _, _)
sha1_blocks(h, m, off) ==
    IF off >= Len(m) THEN h ELSE sha1_blocks(sha1_block(h, m, off), m, off + 64)

sha1_bytes(h) ==
    bytes_be(h[1]) \o bytes_be(h[2]) \o bytes_be(h[3]) \o bytes_be(h[4]) \o bytes_be(h[5])

sha1(m) ==
    sha1_bytes(sha1_blocks(<<<<26437, 8961>>, <<61389, 43913>>, <<39098, 56574>>,
                             <<4146, 21622>>, <<50130, 57840>>>>, pad(m, len_be(Len(m))), 0))

(* HMAC (RFC 2104) with SHA-1; keys here are at most 64 bytes long.       *)
hmac_pad(key, c) == [i \in 1..64 |-> IF i <= Len(key) THEN byte_op("xor", key[i], c) ELSE c]

hmac_sha1(key, msg) == sha1(hmac_pad(key, 92) \o sha1(hmac_pad(key, 54) \o msg))


(* MD5 (RFC 1321).                                                        *)
md5_k ==
    <<
    <<55146, 42104>>, <<59591, 46934>>, <<9248, 28891>>, <<49597, 52974>>,
    <<62844, 4015>>, <<18311, 50730>>, <<43056, 17939>>, <<64838, 38145>>,
    <<27008, 39128>>, <<35652, 63407>>, <<65535, 23473>>, <<35164, 55230>>,
    <<27536, 4386>>, <<64920, 29075>>, <<42617, 17294>>, <<18868, 2081>>,
    <<63006, 9570>>, <<49216, 45888>>, <<9822, 23121>>, <<59830, 51114>>,
    <<54831, 4189>>, <<580, 5203>>, <<55457, 59009>>, <<59347, 64456>>,
    <<8673, 52710>>, <<49975, 2006>>, <<62677, 3463>>, <<17754, 5357>>,
    <<43491, 59653>>, <<64751, 41976>>, <<26479, 729>>, <<36138, 19594>>,
    <<65530, 14658>>, <<34673, 63105>>, <<28061, 24866>>, <<64997, 14348>>,
    <<42174, 59972>>, <<19422, 53161>>, <<63163, 19296>>, <<48831, 48240>>,
    <<10395, 32454>>, <<60065, 10234>>, <<54511, 12421>>, <<1160, 7429>>,
    <<55764, 53305>>, <<59099, 39397>>, <<8098, 31992>>, <<50348, 22117>>,
    <<62505, 8772>>, <<17194, 65431>>, <<43924, 9127>>, <<64659, 41017>>,
    <<25947, 22979>>, <<36620, 52370>>, <<65519, 62589>>, <<34180, 24017>>,
    <<28584, 32335>>, <<65068, 59104>>, <<41729, 17172>>, <<19976, 4513>>,
    <<63315, 32386>>, <<48442, 62005>>, <<10967, 53947>>, <<60294, 54161>>
    >>

md5_s ==
    <<7, 12, 17, 22, 7, 12, 17, 22, 7, 12, 17, 22, 7, 12, 17, 22,
      5, 9, 14, 20, 5, 9, 14, 20, 5, 9, 14, 20, 5, 9, 14, 20,
      4, 11, 16, 23, 4, 11, 16, 23, 4, 11, 16, 23, 4, 11, 16, 23,
      6, 10, 15, 21, 6, 10, 15, 21, 6, 10, 15, 21, 6, 10, 15, 21>>

md5_f(i, b, c, d) ==
    IF i < 16 THEN or32(and32(b, c), and32(not32(b), d))
    ELSE IF i < 32 THEN or32(and32(d, b), and32(not32(d), c))
    ELSE IF i < 48 THEN xor32(xor32(b, c), d)
    ELSE xor32(c, or32(b, not32(d)))

md5_g(i) ==
    IF i < 16 THEN i
    ELSE IF i < 32 THEN ((5 * i) + 1) % 16
    ELSE IF i < 48 THEN ((3 * i) + 5) % 16
    ELSE (7 * i) % 16

md5_round(s, i) ==
    LET h == s.h
        f == add32(add32(md5_f(i, h[2], h[3], h[4]), h[1]),
                   add32(md5_k[i + 1], s.w[md5_g(i) + 1]))
    IN  [h |-> <<h[4], add32(h[2], rotl32(f, md5_s[i + 1])), h[2], h[3]>>, w |-> s.w]

RECURSIVE md5_rounds(_, _, _)
md5_rounds(s, lo, hi) ==
    IF DOMAIN s = {} THEN s
    ELSE IF hi = lo + 1 THEN md5_round(s, lo)
    ELSE LET mid == (lo + hi) \div 2
         IN  md5_rounds(md5_rounds(s, lo, mid), mid, hi)

md5_add(h, s) == [i \in 1..4 |-> add32(h[i], s.h[i])]

md5_block(h, m, off) ==
    md5_add(h, md5_rounds([h |-> h, w |-> [i \in 1..16 |-> word_le(m, off + (4 * (i - 1)) + 1)]],
                          0, 64))

RECURSIVE md5_blocks(_, _, _)
md5_blocks(h, m, off) ==
    IF off >= Len(m) THEN h ELSE md5_blocks(md5_block(h, m, off), m, off + 64)

md5_bytes(h) == bytes_le(h[1]) \o bytes_le(h[2]) \o bytes_le(h[3]) \o bytes_le(h[4])

md5(m) ==
    md5_bytes(md5_blocks(<<<<26437, 8961>>, <<61389, 43913>>, <<39098, 56574>>, <<4146, 21622>>>>,
                         pad(m, len_le(Len(m))), 0))

(* Mutant: the realm is left out of the key.                               *)
generate_auth_key_no_realm(username, realm, password) ==
    md5(username \o <<58>> \o password)

(* key = MD5(username ":" realm ":" password).                            *)
generate_auth_key(username, realm, password) ==
    md5(username \o <<58>> \o realm \o <<58>> \o password)


(* Standard base64 with padding, as character codes.                     *)
b64_char(v) ==
    IF v < 26 THEN 65 + v
    ELSE IF v < 52 THEN 97 + (v - 26)
    ELSE IF v < 62 THEN 48 + (v - 52)
    ELSE IF v = 62 THEN 43 ELSE 47

RECURSIVE base64(_)
base64(b) ==
    IF Len(b) = 0 THEN <<>>
    ELSE IF Len(b) = 1 THEN <<b64_char(b[1] \div 4), b64_char((b[1] % 4) * 16), 61, 61>>
    ELSE IF Len(b) = 2 THEN <<b64_char(b[1] \div 4), b64_char(((b[1] % 4) * 16) + (b[2] \div 16)),
                              b64_char((b[2] % 16) * 4), 61>>
    ELSE <<b64_char(b[1] \div 4), b64_char(((b[1] % 4) * 16) + (b[2] \div 16)),
           b64_char(((b[2] % 16) * 4) + (b[3] \div 64)), b64_char(b[3] % 64)>>
         \o base64(SubSeq(b, 4, Len(b)))

(* password = base64(HMAC-SHA1(shared_secret, username)).                 *)
long_term_credentials(username, shared_secret) ==
    base64(hmac_sha1(shared_secret, username))

RECURSIVE decimal(_)
decimal(n) == IF n < 10 THEN <<48 + n>> ELSE decimal(n \div 10) \o <<48 + (n % 10)>>

(* The strings of auth_test.rs.                                            *)
foobar == <<102, 111, 111, 98, 97, 114>>
HELLO_WORLD == <<72, 69, 76, 76, 79, 95, 87, 79, 82, 76, 68>>
webrtc_rs == <<119, 101, 98, 114, 116, 99, 46, 114, 115>>
(* "1599491771" and "Tpz/nKkyvX/vMSLKvL4sbtBt8Vs="                         *)
test_lt_cred_username == <<49, 53, 57, 57, 52, 57, 49, 55, 55, 49>>
test_lt_cred_expected_password ==
    <<84, 112, 122, 47, 110, 75, 107, 121, 118, 88, 47, 118, 77, 83, 76, 75, 118, 76, 52,
      115, 98, 116, 66, 116, 56, 86, 115, 61>>
(* "60" and "HWbnm25GwSj6jiHTEDMTO5D7aBw="                                 *)
test_auth_key_username == <<54, 48>>
test_auth_key_password ==
    <<72, 87, 98, 110, 109, 50, 53, 71, 119, 83, 106, 54, 106, 105, 72, 84, 69, 68, 77, 84,
      79, 53, 68, 55, 97, 66, 119, 61>>
test_auth_key_expected_key ==
    <<56, 22, 47, 139, 198, 127, 13, 188, 171, 80, 23, 29, 195, 148, 216, 224>>

SharedSecrets == {foobar, HELLO_WORLD}
(* Clock readings (seconds since the epoch) and time-to-live values.      *)
Nows == {0, 999999940, 1599491711}
Ttls == {60, 3600}

(* Credentials made by generate_long_term_credentials, and the pair of    *)
(* test_generate_auth_key, which is given to the client as it is.          *)
AuthInputs ==
    {[pc |-> "start", origin |-> "generated", shared_secret |-> s, handler_secret |-> h,
      now |-> n, ttl |-> t, ticks |-> 0, expiry |-> 0, username |-> <<>>, password |-> <<>>,
      key |-> <<>>, handler_password |-> <<>>, handler_key |-> <<>>, accepted |-> FALSE] :
        s \in SharedSecrets, h \in SharedSecrets, n \in Nows, t \in Ttls}
    \cup
    {[pc |-> "configured", origin |-> "given", shared_secret |-> <<>>, handler_secret |-> h,
      now |-> 0, ttl |-> 0, ticks |-> 0, expiry |-> 0, username |-> test_auth_key_username,
      password |-> test_auth_key_password,
      key |-> <<>>, handler_password |-> <<>>, handler_key |-> <<>>, accepted |-> FALSE] :
        h \in SharedSecrets}

InitAuth == InitConn /\ other_peers = "none" /\ auth \in AuthInputs

auth_frame ==
    UNCHANGED <<read_ch_tx, refresh_alloc_timer, refresh_perms_timer, perm_map, bindings,
                nonce, obs_lock, call, tasks, other_peers, lifetime, fired, read_ch,
                rx_lock, recv, hist>>

generate_long_term_credentials ==
    /\ auth.pc = "start"
    /\ \E username \in {decimal(auth.now + auth.ttl)} :
          auth' = [auth EXCEPT
                      !.pc = "configured", !.expiry = auth.now + auth.ttl,
                      !.username = username,
                      !.password = long_term_credentials(username, auth.shared_secret)]
    /\ auth_frame

(* Time passes between the making of the credentials and their use.       *)
auth_clock ==
    /\ auth.pc = "keyed"
    /\ auth.ticks < AuthTicks
    /\ auth' = [auth EXCEPT !.ticks = @ + 1, !.now = @ + AuthTickSecs]
    /\ auth_frame

(* The client, configured with (username, password, realm), derives the   *)
(* integrity key of its requests.                                          *)
client_auth_key ==
    /\ auth.pc = "configured"
    /\ auth' = [auth EXCEPT !.pc = "keyed",
                            !.key = generate_auth_key(auth.username, webrtc_rs, auth.password)]
    /\ auth_frame

(* The server's handler derives the password and the key from the         *)
(* username of the request and its own shared secret, and accepts the      *)
(* request when the client's integrity key is that key.                    *)
long_term_auth_handler ==
    /\ auth.pc = "keyed"
    /\ \E password \in {long_term_credentials(auth.username, auth.handler_secret)} :
          \E key \in {generate_auth_key(auth.username, webrtc_rs, password)} :
             auth' = [auth EXCEPT !.pc = "done", !.handler_password = password,
                                  !.handler_key = key, !.accepted = (key = auth.key)]
    /\ auth_frame

RECURSIVE decimal_value(_)
decimal_value(s) ==
    IF s = <<>> THEN 0
    ELSE (10 * decimal_value(SubSeq(s, 1, Len(s) - 1))) + (s[Len(s)] - 48)

Next ==
    \/ \E addr \in Addrs : send_to_begin(addr)
    \/ send_to_create_perm
    \/ \E resp \in TxResponses : send_to_cp_response(resp)
    \/ send_to_binding
    \/ \E ok \in BOOLEAN : send_to_write(ok)
    \/ \E t \in BagToSet(tasks) : task_start(t)
    \/ \E t \in BagToSet(tasks) : task_bind(t)
    \/ \E t \in BagToSet(tasks), outcome \in BindOutcomes : task_response(t, outcome)
    \/ \E t \in BagToSet(tasks) : task_finish(t)
    \/ close_begin
    \/ close_on_deallocated
    \/ \E sent \in BOOLEAN : close_refresh(sent)
    \/ call_return
    \/ Tick

Spec == Init /\ [][Next]_vars

(* The two refresh timers together with send_to, the bind tasks and       *)
(* close.  Bound of this specification: a send_to begins only while no     *)
(* bind task is unfinished, and the age of the bindings is not counted.    *)
NextTimers ==
    \/ \E addr \in Addrs : tasks = EmptyBag /\ send_to_begin(addr)
    \/ send_to_create_perm
    \/ \E resp \in TxResponses : send_to_cp_response(resp)
    \/ send_to_binding
    \/ \E ok \in BOOLEAN : send_to_write(ok)
    \/ \E t \in BagToSet(tasks) : task_start(t)
    \/ \E t \in BagToSet(tasks) : task_bind(t)
    \/ \E t \in BagToSet(tasks), outcome \in BindOutcomes : task_response(t, outcome)
    \/ \E t \in BagToSet(tasks) : task_finish(t)
    \/ close_begin
    \/ close_on_deallocated
    \/ \E sent \in BOOLEAN : close_refresh(sent)
    \/ call_return
    \/ \E id \in TimerIds : timer_fire(id)
    \/ \E id \in TimerIds : on_timeout_begin(id)
    \/ on_timeout_refresh
    \/ \E resp \in RefreshResponses : on_timeout_refresh_response(resp)
    \/ on_timeout_perms
    \/ \E resp \in TxResponses : on_timeout_perms_response(resp)

SpecTimers == Init /\ [][NextTimers]_vars

(* The inbound queue, its receivers and close.  The receivers' steps are  *)
(* fair: the runtime wakes a receiver when a packet arrives or the sender  *)
(* is dropped, and the read_ch_rx mutex is handed out in the order it was  *)
(* asked for.                                                              *)
NextRecv ==
    \/ \E addr \in Addrs : handle_inbound(addr)
    \/ \E r \in Receivers, buf \in {"fits", "short"} : recv_from_begin(r, buf)
    \/ \E r \in Receivers : recv_from_lock(r)
    \/ \E r \in Receivers : recv_from_some(r)
    \/ \E r \in Receivers : recv_from_none(r)
    \/ \E r \in Receivers : recv_from_return(r)
    \/ close_begin
    \/ close_on_deallocated
    \/ \E sent \in BOOLEAN : close_refresh(sent)
    \/ call_return

SpecRecv ==
    /\ Init
    /\ [][NextRecv]_vars
    /\ \A r \in Receivers :
          /\ SF_vars(recv_from_lock(r))
          /\ WF_vars(recv_from_some(r))
          /\ WF_vars(recv_from_none(r))

(* The credentials: their making, the client's key and the server's       *)
(* handler.                                                                *)
NextAuth ==
    \/ generate_long_term_credentials
    \/ auth_clock
    \/ client_auth_key
    \/ long_term_auth_handler

SpecAuth == InitAuth /\ [][NextAuth]_vars

(* The same program, started with the channel numbers (nearly) used up.  *)
SpecChan == InitChan /\ [][Next]_vars
====
